---------------------------- MODULE Spec2Model ----------------------------
(* The claude-automation daemon of TOOLS/CLAUDE_AUTOMATION: the polling loop  *)
(* of main.rs and the agent router of agent_router.rs.                        *)
EXTENDS Integers, Sequences, FiniteSets, TLC

(***************************************************************************)
(* Strings are sequences of one-character strings, so that case folding    *)
(* and substring search are computed and not assumed.                      *)
(***************************************************************************)
UpperChars == <<"A","B","C","D","E","F","G","H","I","J","K","L","M","N","O","P","Q","R","S","T","U","V","W","X","Y","Z">>

LowerChars == <<"a","b","c","d","e","f","g","h","i","j","k","l","m","n","o","p","q","r","s","t","u","v","w","x","y","z">>

\* char::to_lowercase on the ASCII range
to_lowercase_char(c) ==
  IF \E i \in 1..Len(UpperChars) : UpperChars[i] = c
  THEN LowerChars[CHOOSE i \in 1..Len(UpperChars) : UpperChars[i] = c]
  ELSE c

\* str::to_lowercase
to_lowercase(s) == [i \in 1..Len(s) |-> to_lowercase_char(s[i])]

\* str::contains(pattern): pattern occurs as a contiguous substring
contains(s, pat) ==
  \E i \in 1..(Len(s) - Len(pat) + 1) : SubSeq(s, i, i + Len(pat) - 1) = pat

\* agent_router.rs: the keywords that trigger re-planning, in source order
replanning_keywords == <<
  <<"d","i","f","f","e","r","e","n","t"," ","a","p","p","r","o","a","c","h">>,
  <<"r","e","t","h","i","n","k">>,
  <<"r","e","d","e","s","i","g","n">>,
  <<"c","h","a","n","g","e"," ","a","r","c","h","i","t","e","c","t","u","r","e">>,
  <<"b","r","e","a","k","i","n","g"," ","c","h","a","n","g","e">>,
  <<"m","a","j","o","r"," ","r","e","f","a","c","t","o","r">>,
  <<"l","e","t","'","s"," ","t","r","y">>,
  <<"i","n","s","t","e","a","d"," ","o","f">>,
  <<"b","e","t","t","e","r"," ","w","a","y">>
>>

\* Comment bodies the router is exercised on: a core, optionally wrapped.
REDESIGN == <<"R","E","D","E","S","I","G","N">>

INSTEAD == <<"I","n","s","t","e","a","d">>

KeywordCores == {
  <<"D","i","f","f","e","r","e","n","t"," ","A","p","p","r","o","a","c","h">>,
  <<"R","e","T","h","i","n","k">>,
  <<"R","E","D","E","S","I","G","N">>,
  <<"C","h","a","n","g","e"," ","A","r","c","h","i","t","e","c","t","u","r","e">>,
  <<"B","R","E","A","K","I","N","G"," ","C","H","A","N","G","E">>,
  <<"M","a","j","o","r"," ","R","e","f","a","c","t","o","r">>,
  <<"L","E","T","'","S"," ","T","R","Y">>,
  <<"I","n","s","t","e","a","d"," ","o","f">>,
  <<"b","e","t","t","e","r"," ","w","a","y">>,
  <<"L","e","t","'","s"," ","t","r","y"," ","a"," ","d","i","f","f","e","r","e","n","t"," ","a","p","p","r","o","a","c","h">>
}

PlainCores == {
  <<"f","i","x"," ","t","h","e"," ","t","y","p","o">>,
  <<"l","o","o","k","s"," ","g","o","o","d",","," ","s","h","i","p"," ","i","t">>,
  <<"l","e","t","s"," ","t","r","y">>,
  <<"r","e"," ","t","h","i","n","k">>,
  <<"I","n","s","t","e","a","d">>,
  <<"B","e","t","t","e","r">>,
  << >>
}

PLEASE == <<"P","l","e","a","s","e"," ">>

Prefixes == { << >>, PLEASE }

OF_IT == <<" ","o","f"," ","i","t">>

Suffixes == { << >>, OF_IT }

Bodies == { p \o c \o s : p \in Prefixes, c \in KeywordCores \cup PlainCores, s \in Suffixes }

EarlyBodies == { <<"R","e","T","h","i","n","k">>, <<"o","k">> }

(***************************************************************************)
(* Bounds of the model.                                                    *)
(***************************************************************************)
NumIssues == 2

MaxEarlier == 2

Issues == 1..NumIssues

(***************************************************************************)
(* agent_router.rs                                                         *)
(***************************************************************************)
Agent == {"Planner", "Executor"}

\* What Database::has_plan answers for an issue: Ok(true), Ok(false) or Err.
PlanAnswers == {"true", "false", "err"}

\* Variants of decide with one slip each.
\* The body is matched without case folding.
decide_case_sensitive(comments, db) ==
  IF Len(comments) = 0
  THEN "Executor"
  ELSE LET last_comment == comments[Len(comments)]
           body == last_comment.body
       IN  IF \E k \in 1..Len(replanning_keywords) : contains(body, replanning_keywords[k])
           THEN "Planner"
           ELSE IF db[last_comment.issue_number] = "err"
           THEN "Err"
           ELSE IF db[last_comment.issue_number] = "false"
           THEN "Planner"
           ELSE "Executor"

\* The plan test is inverted.
decide_plan_inverted(comments, db) ==
  IF Len(comments) = 0
  THEN "Executor"
  ELSE LET last_comment == comments[Len(comments)]
           body == to_lowercase(last_comment.body)
       IN  IF \E k \in 1..Len(replanning_keywords) : contains(body, replanning_keywords[k])
           THEN "Planner"
           ELSE IF db[last_comment.issue_number] = "err"
           THEN "Err"
           ELSE IF db[last_comment.issue_number] = "true"
           THEN "Planner"
           ELSE "Executor"

\* An empty slice is sent to the Planner.
decide_empty_planner(comments, db) ==
  IF Len(comments) = 0
  THEN "Planner"
  ELSE LET last_comment == comments[Len(comments)]
           body == to_lowercase(last_comment.body)
       IN  IF \E k \in 1..Len(replanning_keywords) : contains(body, replanning_keywords[k])
           THEN "Planner"
           ELSE IF db[last_comment.issue_number] = "err"
           THEN "Err"
           ELSE IF db[last_comment.issue_number] = "false"
           THEN "Planner"
           ELSE "Executor"

\* Every comment of the slice is searched for a keyword.
decide_any_comment(comments, db) ==
  IF Len(comments) = 0
  THEN "Executor"
  ELSE LET last_comment == comments[Len(comments)]
       IN  IF \E c \in 1..Len(comments), k \in 1..Len(replanning_keywords) :
                contains(to_lowercase(comments[c].body), replanning_keywords[k])
           THEN "Planner"
           ELSE IF db[last_comment.issue_number] = "err"
           THEN "Err"
           ELSE IF db[last_comment.issue_number] = "false"
           THEN "Planner"
           ELSE "Executor"

\* pub fn decide(comments: &[Comment], db: &Database) -> Result<Agent>
\* db maps an issue number to the answer has_plan gives for it in this call.
decide(comments, db) ==
  IF Len(comments) = 0
  THEN "Executor"
  ELSE LET last_comment == comments[Len(comments)]
           body == to_lowercase(last_comment.body)
       IN  IF \E k \in 1..Len(replanning_keywords) : contains(body, replanning_keywords[k])
           THEN "Planner"
           ELSE IF db[last_comment.issue_number] = "err"
           THEN "Err"
           ELSE IF db[last_comment.issue_number] = "false"
           THEN "Planner"
           ELSE "Executor"

Comment(i, b) == [issue_number |-> i, body |-> b]

RECURSIVE SeqsUpTo(_, _)
\* All sequences over S of length at most n.
SeqsUpTo(S, n) ==
  IF n = 0 THEN { << >> }
  ELSE LET shorter == SeqsUpTo(S, n - 1)
       IN  shorter \cup { Append(s, x) : s \in shorter, x \in S }

EarlierComments == { Comment(i, b) : i \in Issues, b \in EarlyBodies }

LastComments == { Comment(i, b) : i \in Issues, b \in Bodies }

\* The comment slices decide is applied to: empty, or any earlier comments
\* followed by a most recent one.
CommentSeqs ==
  { << >> } \cup
  { Append(e, c) : e \in SeqsUpTo(EarlierComments, MaxEarlier), c \in LastComments }

KeywordBody == <<"L","e","t","'","s"," ","t","r","y">>

PlainBody == <<"f","i","x"," ","t","h","e"," ","t","y","p","o">>

(***************************************************************************)
(* main.rs: the polling loop.  The collaborators behind it (the tracker    *)
(* client, the state store, the session runner, the worktree manager) are  *)
(* reached only through the calls main makes.                              *)
(***************************************************************************)
MaxComments == 1

ActivityTimeoutMinutes == 10

PollIntervalIdleSecs == 60

PollIntervalActiveSecs == 15

PollIntervalVeryActiveSecs == 5

RapidGapSecs == 120

GraceSecs == 15

ActivityState == {"Idle", "Active", "VeryActive"}

ActivityTimeoutSecs == ActivityTimeoutMinutes * 60

\* Elapsed times beyond the timeout are all alike to the loop.
ElapsedCap == ActivityTimeoutSecs + 1

\* Readings of last_activity.elapsed().as_secs() the loop is run on: the
\* values on either side of each comparison the update makes.
TimePoints ==
  { 0, RapidGapSecs - 1, RapidGapSecs, ActivityTimeoutSecs, ElapsedCap }

\* The readings possible once at least e seconds have passed: the loop's
\* calls take any time on top of its sleeps.
ReadingsFrom(e) == { t \in TimePoints : t >= e }

\* The least reading after d more seconds.
ElapsedAfter(e, d) ==
  LET least == IF e + d > ElapsedCap THEN ElapsedCap ELSE e + d
  IN  CHOOSE t \in ReadingsFrom(least) : \A u \in ReadingsFrom(least) : t <= u

\* A variant of the table with the two faster intervals exchanged.
PollIntervalOf_swapped(state) ==
  CASE state = "Idle" -> PollIntervalIdleSecs
    [] state = "Active" -> PollIntervalVeryActiveSecs
    [] state = "VeryActive" -> PollIntervalActiveSecs

\* main.rs: let poll_interval = match activity_state { ... }
PollIntervalOf(state) ==
  CASE state = "Idle" -> PollIntervalIdleSecs
    [] state = "Active" -> PollIntervalActiveSecs
    [] state = "VeryActive" -> PollIntervalVeryActiveSecs

\* Variants of the update with one slip each.
\* A gap of exactly two minutes still counts as rapid.
UpdatedActivityState_inclusive(detected, state, since) ==
  IF detected
  THEN IF since <= RapidGapSecs THEN "VeryActive" ELSE "Active"
  ELSE IF since > ActivityTimeoutMinutes * 60
       THEN "Idle"
       ELSE IF since > RapidGapSecs /\ state = "VeryActive"
            THEN "Active"
            ELSE state

\* The slow-down of VeryActive is tested before the timeout.
UpdatedActivityState_downgrade_first(detected, state, since) ==
  IF detected
  THEN IF since < RapidGapSecs THEN "VeryActive" ELSE "Active"
  ELSE IF since > RapidGapSecs /\ state = "VeryActive"
       THEN "Active"
       ELSE IF since > ActivityTimeoutMinutes * 60
            THEN "Idle"
            ELSE state

\* VeryActive falls to Idle as soon as the two minutes are over.
UpdatedActivityState_early_idle(detected, state, since) ==
  IF detected
  THEN IF since < RapidGapSecs THEN "VeryActive" ELSE "Active"
  ELSE IF since > ActivityTimeoutMinutes * 60
       THEN "Idle"
       ELSE IF since > RapidGapSecs /\ state = "VeryActive"
            THEN "Idle"
            ELSE state

\* main.rs: the activity state after the cycle's update
UpdatedActivityState(detected, state, since) ==
  IF detected
  THEN IF since < RapidGapSecs THEN "VeryActive" ELSE "Active"
  ELSE IF since > ActivityTimeoutMinutes * 60
       THEN "Idle"
       ELSE IF since > RapidGapSecs /\ state = "VeryActive"
            THEN "Active"
            ELSE state

\* main.rs: last_activity = Instant::now() only when activity was detected;
\* the seconds since last_activity right after the update read `since`
UpdatedElapsed(detected, since) == IF detected THEN 0 ELSE since

CommentKinds == {"issue", "pr"}

\* A comment on the tracker: github::Comment plus where it was posted.
TrackerComment(i, k, ts, b) ==
  [issue_number |-> i, kind |-> k, created_at |-> ts, body |-> b]

\* What is posted while the loop runs: issue comments with and without a
\* re-planning keyword, PR comments with one.
BodiesOf(kind) == IF kind = "issue" THEN { KeywordBody, PlainBody } ELSE { KeywordBody }

RECURSIVE SetToSeq(_)
\* The elements of a set of numbers in ascending order.
SetToSeq(S) ==
  IF S = {} THEN << >>
  ELSE LET m == CHOOSE x \in S : \A y \in S : x <= y
       IN  <<m>> \o SetToSeq(S \ {m})

RECURSIVE MaxOf(_)
MaxOf(S) ==
  IF S = {} THEN 0
  ELSE LET x == CHOOSE y \in S : TRUE
           r == MaxOf(S \ {x})
       IN  IF x > r THEN x ELSE r

\* One external call made by a step: which, for which issue, whether it
\* succeeded, in which phase, whether the issue had a record before it, and
\* what it returned: the comments of a fetch, the seconds of a clock reading
\* (nothing for the other calls).
Call(op, i, ok, phase, tracked) ==
  [op |-> op, issue |-> i, ok |-> ok, phase |-> phase, tracked |-> tracked,
   delivered |-> << >>]

VARIABLES
  pc,                 \* where main is
  exit_cause,         \* why main returned ("none" while it runs)
  activity_state,     \* let mut activity_state
  elapsed,            \* seconds since last_activity, at the least (capped)
  poll_interval,      \* let poll_interval, of the current cycle
  activity_detected,  \* let mut activity_detected
  queue,              \* what the current for loop has not handled yet
  cur,                \* the issue whose Planner was just spawned (0: none)
  records,            \* state store: issues with an AutomationRecord
  plan_exists,        \* state store: issues whose plan has been posted
  last_comment_time,  \* state store: the per-issue comment watermark
  tracker,            \* issue tracker: the comments posted so far
  ev,                 \* the external calls made by the last step
  planned,            \* history: per issue, 1 if this scan spawned its Planner, 2 if the scan before did
  keep_history,       \* whether that history is kept in this run
  rt_comments,        \* router harness: the comments decide is applied to
  rt_db,              \* router harness: the has_plan answers
  rt_result,          \* router harness: what decide returned
  at_detected,        \* update harness: whether activity was detected
  at_state,           \* update harness: the activity state before the update
  at_since,           \* update harness: the seconds read from last_activity
  at_result,          \* update harness: the activity state after the update
  at_elapsed,         \* update harness: the seconds since last_activity
  at_interval         \* update harness: the poll interval of the current state

rt_vars == <<rt_comments, rt_db, rt_result>>

at_vars == <<at_detected, at_state, at_since, at_result, at_elapsed, at_interval>>

store_vars == <<records, plan_exists, last_comment_time>>

activity_vars == <<activity_state, elapsed>>

daemon_vars ==
  <<pc, exit_cause, activity_state, elapsed, poll_interval, activity_detected,
    queue, cur, records, plan_exists, last_comment_time, tracker, ev, planned, keep_history>>

vars == <<daemon_vars, rt_vars, at_vars>>

\* The state before main runs; Instant::now() is taken at startup.
DaemonInit ==
  /\ pc = "startup"
  /\ exit_cause = "none"
  /\ activity_state = "Idle"
  /\ elapsed = 0
  /\ poll_interval = PollIntervalIdleSecs
  /\ activity_detected = FALSE
  /\ queue = << >>
  /\ cur = 0
  /\ records = {}
  /\ plan_exists = {}
  /\ last_comment_time = [i \in Issues |-> 0]
  /\ tracker = {}
  /\ ev = << >>
  /\ planned = [i \in Issues |-> 0]

RouterIdle ==
  /\ rt_comments = << >>
  /\ rt_db = [i \in Issues |-> "err"]
  /\ rt_result = "none"

\* The update harness at rest.
ActivityIdle ==
  /\ at_detected = FALSE
  /\ at_state = "Idle"
  /\ at_since = 0
  /\ at_result = "none"
  /\ at_elapsed = 0
  /\ at_interval = PollIntervalOf("Idle")

Init == DaemonInit /\ keep_history = FALSE /\ RouterIdle /\ ActivityIdle

\* main returns Err: the process exits.
Exit(cause) ==
  /\ pc' = "exited"
  /\ exit_cause' = cause
  /\ queue' = << >>

\* A variant of the startup that begins in Active.
Startup_active ==
  /\ pc = "startup"
  /\ ev' = << >>
  /\ \E failure \in {"none", "config", "database", "github"} :
       IF failure = "none"
       THEN /\ pc' = "loop_top"
            /\ activity_state' = "Active"
            /\ elapsed' = 0
            /\ UNCHANGED <<exit_cause, queue>>
       ELSE /\ Exit("startup")
            /\ UNCHANGED activity_vars
  /\ UNCHANGED <<poll_interval, activity_detected, cur, store_vars, tracker, planned, keep_history, rt_vars, at_vars>>

\* main.rs 33-46: Config::load, Database::open, GitHubClient::new, each with ?
Startup ==
  /\ pc = "startup"
  /\ ev' = << >>
  /\ \E failure \in {"none", "config", "database", "github"} :
       IF failure = "none"
       THEN /\ pc' = "loop_top"
            /\ activity_state' = "Idle"
            /\ elapsed' = 0
            /\ UNCHANGED <<exit_cause, queue>>
       ELSE /\ Exit("startup")
            /\ UNCHANGED activity_vars
  /\ UNCHANGED <<poll_interval, activity_detected, cur, store_vars, tracker, planned, keep_history, rt_vars, at_vars>>

\* A variant of the loop head that keeps the activity flag of the last cycle.
LoopTop_sticky ==
  /\ pc = "loop_top"
  /\ poll_interval' = PollIntervalOf(activity_state)
  /\ pc' = "poll_triggers"
  /\ ev' = << >>
  /\ UNCHANGED <<exit_cause, activity_vars, activity_detected, queue, cur, store_vars,
                 tracker, planned, keep_history, rt_vars, at_vars>>

\* main.rs 54-64: the head of the loop
LoopTop ==
  /\ pc = "loop_top"
  /\ poll_interval' = PollIntervalOf(activity_state)
  /\ activity_detected' = FALSE
  /\ pc' = "poll_triggers"
  /\ ev' = << >>
  /\ UNCHANGED <<exit_cause, activity_vars, queue, cur, store_vars, tracker, planned, keep_history, rt_vars, at_vars>>

\* main.rs 67-71, 101-104: github.poll_triggers(); an error is logged
PollTriggers ==
  /\ pc = "poll_triggers"
  /\ planned' = IF keep_history
                THEN [i \in Issues |-> IF planned[i] = 1 THEN 2 ELSE 0]
                ELSE planned
  /\ \E ok \in BOOLEAN :
       /\ ev' = << Call("poll_triggers", 0, ok, "trigger", FALSE) >>
       /\ IF ok
          THEN \E labeled \in SUBSET Issues :
                 /\ queue' = SetToSeq(labeled)
                 /\ pc' = "trigger_loop"
          ELSE /\ queue' = << >>
               /\ pc' = "get_active"
  /\ UNCHANGED <<exit_cause, activity_vars, poll_interval, activity_detected, cur,
                 store_vars, tracker, keep_history, rt_vars, at_vars>>

\* Database::automation_exists(n).unwrap_or(false): an Err counts as false
automation_exists(n, answer) ==
  IF answer = "err" THEN FALSE ELSE n \in records

\* session::spawn_planner: a successful spawn leaves the issue tracked; a
\* failed one may have written the record before the runner failed.
RecordsAfterSpawnPlanner(n, ok, wrote) ==
  IF ok \/ wrote THEN records \cup {n} ELSE records

\* A variant of the trigger loop that waits and hands off to the Executor
\* whether or not the Planner spawn succeeded.
TriggerIssue_handoff_always ==
  /\ pc = "trigger_loop"
  /\ queue # << >>
  /\ LET issue == Head(queue) IN
     \E answer \in {"ok", "err"} :
       IF automation_exists(issue, answer)
       THEN /\ ev' = << Call("automation_exists", issue, answer = "ok", "trigger",
                             issue \in records) >>
            /\ queue' = Tail(queue)
            /\ UNCHANGED <<pc, cur, records, activity_detected, elapsed, planned>>
       ELSE \E ok \in BOOLEAN, wrote \in BOOLEAN :
            /\ ev' = << Call("automation_exists", issue, answer = "ok", "trigger",
                             issue \in records),
                        Call("spawn_planner", issue, ok, "trigger", issue \in records) >>
            /\ records' = RecordsAfterSpawnPlanner(issue, ok, wrote)
            /\ planned' = IF ok /\ keep_history THEN [planned EXCEPT ![issue] = 1] ELSE planned
            /\ activity_detected' = (activity_detected \/ ok)
            /\ cur' = issue
            /\ pc' = "handoff"
            /\ elapsed' = ElapsedAfter(elapsed, GraceSecs)
            /\ UNCHANGED queue
  /\ UNCHANGED <<exit_cause, activity_state, poll_interval, plan_exists,
                 last_comment_time, tracker, keep_history, rt_vars, at_vars>>

\* A variant of the trigger loop that tries the same issue again when its
\* Planner spawn fails.
TriggerIssue_retrying ==
  /\ pc = "trigger_loop"
  /\ queue # << >>
  /\ LET issue == Head(queue) IN
     \E answer \in {"ok", "err"} :
       IF automation_exists(issue, answer)
       THEN \* continue
            /\ ev' = << Call("automation_exists", issue, answer = "ok", "trigger",
                             issue \in records) >>
            /\ queue' = Tail(queue)
            /\ UNCHANGED <<pc, cur, records, activity_detected, elapsed, planned>>
       ELSE \E ok \in BOOLEAN, wrote \in BOOLEAN :
            /\ ev' = << Call("automation_exists", issue, answer = "ok", "trigger",
                             issue \in records),
                        Call("spawn_planner", issue, ok, "trigger", issue \in records) >>
            /\ records' = RecordsAfterSpawnPlanner(issue, ok, wrote)
            /\ planned' = IF ok /\ keep_history THEN [planned EXCEPT ![issue] = 1] ELSE planned
            /\ IF ok
               THEN /\ activity_detected' = TRUE
                    /\ cur' = issue
                    /\ pc' = "handoff"
                    \* tokio::time::sleep(15s)
                    /\ elapsed' = ElapsedAfter(elapsed, GraceSecs)
                    /\ UNCHANGED queue
               ELSE UNCHANGED <<queue, pc, cur, activity_detected, elapsed>>
  /\ UNCHANGED <<exit_cause, activity_state, poll_interval, plan_exists,
                 last_comment_time, tracker, keep_history, rt_vars, at_vars>>

\* main.rs 72-98: one iteration of the trigger loop, up to the grace wait
TriggerIssue ==
  /\ pc = "trigger_loop"
  /\ queue # << >>
  /\ LET issue == Head(queue) IN
     \E answer \in {"ok", "err"} :
       IF automation_exists(issue, answer)
       THEN \* continue
            /\ ev' = << Call("automation_exists", issue, answer = "ok", "trigger",
                             issue \in records) >>
            /\ queue' = Tail(queue)
            /\ UNCHANGED <<pc, cur, records, activity_detected, elapsed, planned>>
       ELSE \E ok \in BOOLEAN, wrote \in BOOLEAN :
            /\ ev' = << Call("automation_exists", issue, answer = "ok", "trigger",
                             issue \in records),
                        Call("spawn_planner", issue, ok, "trigger", issue \in records) >>
            /\ records' = RecordsAfterSpawnPlanner(issue, ok, wrote)
            /\ planned' = IF ok /\ keep_history THEN [planned EXCEPT ![issue] = 1] ELSE planned
            /\ IF ok
               THEN /\ activity_detected' = TRUE
                    /\ cur' = issue
                    /\ pc' = "handoff"
                    \* tokio::time::sleep(15s)
                    /\ elapsed' = ElapsedAfter(elapsed, GraceSecs)
                    /\ UNCHANGED queue
               ELSE /\ queue' = Tail(queue)
                    /\ UNCHANGED <<pc, cur, activity_detected, elapsed>>
  /\ UNCHANGED <<exit_cause, activity_state, poll_interval, plan_exists,
                 last_comment_time, tracker, keep_history, rt_vars, at_vars>>

\* A variant of the handoff that tries again when the Executor spawn fails.
Handoff_retrying ==
  /\ pc = "handoff"
  /\ \E ok \in BOOLEAN :
       /\ ev' = << Call("spawn_executor", cur, ok, "trigger", cur \in records) >>
       /\ IF ok
          THEN /\ queue' = Tail(queue)
               /\ cur' = 0
               /\ pc' = "trigger_loop"
          ELSE UNCHANGED <<queue, cur, pc>>
  /\ UNCHANGED <<exit_cause, activity_vars, poll_interval, activity_detected,
                 store_vars, tracker, planned, keep_history, rt_vars, at_vars>>

\* main.rs 89-93: the automatic Executor spawn after the wait; an error is logged
Handoff ==
  /\ pc = "handoff"
  /\ \E ok \in BOOLEAN :
       ev' = << Call("spawn_executor", cur, ok, "trigger", cur \in records) >>
  /\ queue' = Tail(queue)
  /\ cur' = 0
  /\ pc' = "trigger_loop"
  /\ UNCHANGED <<exit_cause, activity_vars, poll_interval, activity_detected,
                 store_vars, tracker, planned, keep_history, rt_vars, at_vars>>

\* A variant that polls PR feedback right after the trigger scan.
TriggerDone_to_prs ==
  /\ pc = "trigger_loop"
  /\ queue = << >>
  /\ pc' = "get_prs"
  /\ ev' = << >>
  /\ UNCHANGED <<exit_cause, activity_vars, poll_interval, activity_detected, queue,
                 cur, store_vars, tracker, planned, keep_history, rt_vars, at_vars>>

\* main.rs 99-100: the trigger loop is through
TriggerDone ==
  /\ pc = "trigger_loop"
  /\ queue = << >>
  /\ pc' = "get_active"
  /\ ev' = << >>
  /\ UNCHANGED <<exit_cause, activity_vars, poll_interval, activity_detected, queue,
                 cur, store_vars, tracker, planned, keep_history, rt_vars, at_vars>>

\* Database::get_active_issues: the tracked issues
get_active_issues == SetToSeq(records)

\* A variant that polls the issues that were tracked before this cycle's
\* trigger scan.
GetActiveIssues_stale ==
  /\ pc = "get_active"
  /\ \E ok \in BOOLEAN :
       /\ ev' = << Call("get_active_issues", 0, ok, "conversation", FALSE) >>
       /\ IF ok
          THEN /\ queue' = SetToSeq({ i \in records : planned[i] # 1 })
               /\ pc' = "conv_loop"
          ELSE /\ queue' = << >>
               /\ pc' = "activity"
  /\ UNCHANGED <<exit_cause, activity_vars, poll_interval, activity_detected, cur,
                 store_vars, tracker, planned, keep_history, rt_vars, at_vars>>

\* main.rs 107-108, 141-144: db.get_active_issues(); an error is logged
GetActiveIssues ==
  /\ pc = "get_active"
  /\ \E ok \in BOOLEAN :
       /\ ev' = << Call("get_active_issues", 0, ok, "conversation", FALSE) >>
       /\ IF ok
          THEN /\ queue' = get_active_issues
               /\ pc' = "conv_loop"
          ELSE /\ queue' = << >>
               /\ pc' = "activity"
  /\ UNCHANGED <<exit_cause, activity_vars, poll_interval, activity_detected, cur,
                 store_vars, tracker, planned, keep_history, rt_vars, at_vars>>

\* The orders in which a set of comments can be listed by creation time.
ByCreation(S) ==
  { s \in [1..Cardinality(S) -> S] :
      /\ \A a, b \in 1..Cardinality(S) : a # b => s[a] # s[b]
      /\ \A a, b \in 1..Cardinality(S) : a < b => s[a].created_at <= s[b].created_at }

\* GitHubClient::get_new_comments / get_pr_comments: the comments of that kind
\* on the issue created after `since`
NewComments(i, kind, since) ==
  ByCreation({ c \in tracker :
                 c.issue_number = i /\ c.kind = kind /\ c.created_at > since })

\* Database::add_comments: the watermark moves to the newest comment recorded
LastCommentTimeAfter(i, comments) ==
  [last_comment_time EXCEPT
     ![i] = MaxOf({ @ } \cup { comments[k].created_at : k \in 1..Len(comments) })]

\* Database::has_plan, for every issue, as answered during one call of decide
HasPlanAnswers(available) ==
  [i \in Issues |->
     IF ~available THEN "err" ELSE IF i \in plan_exists THEN "true" ELSE "false"]

SpawnOpOf(agent) ==
  IF agent = "Planner" THEN "spawn_planner_with_context" ELSE "spawn_executor"

\* main.rs 109-139: one iteration of the conversation loop
ConvIssue ==
  /\ pc = "conv_loop"
  /\ queue # << >>
  /\ LET issue_num == Head(queue)
         tracked == issue_num \in records
         read == Call("last_comment_time", issue_num, TRUE, "conversation", tracked)
     IN
     \/ \* db.last_comment_time(issue_num)? fails
        /\ ev' = << [read EXCEPT !.ok = FALSE] >>
        /\ Exit("store_read")
        /\ UNCHANGED <<activity_detected, last_comment_time>>
     \/ \* get_new_comments fails: logged
        /\ ev' = << read, Call("get_new_comments", issue_num, FALSE, "conversation", tracked) >>
        /\ queue' = Tail(queue)
        /\ UNCHANGED <<pc, exit_cause, activity_detected, last_comment_time>>
     \/ \E new_comments \in NewComments(issue_num, "issue", last_comment_time[issue_num]) :
          LET fetch == [Call("get_new_comments", issue_num, TRUE, "conversation", tracked)
                          EXCEPT !.delivered = new_comments] IN
          IF Len(new_comments) = 0
          THEN /\ ev' = << read, fetch >>
               /\ queue' = Tail(queue)
               /\ UNCHANGED <<pc, exit_cause, activity_detected, last_comment_time>>
          ELSE
            /\ activity_detected' = TRUE
            /\ \E available \in BOOLEAN :
                 LET agent == decide(new_comments, HasPlanAnswers(available))
                     route == Call("decide", issue_num, agent # "Err", "conversation", tracked)
                 IN
                 IF agent = "Err"
                 THEN /\ ev' = << read, fetch, route >>
                      /\ Exit("router")
                      /\ UNCHANGED last_comment_time
                 ELSE \E spawned \in BOOLEAN, written \in BOOLEAN :
                      LET spawn == Call(SpawnOpOf(agent), issue_num, spawned, "conversation", tracked)
                          write == Call("add_comments", issue_num, written, "conversation", tracked)
                      IN
                      IF ~spawned
                      THEN /\ ev' = << read, fetch, route, spawn >>
                           /\ Exit("spawn")
                           /\ UNCHANGED last_comment_time
                      ELSE IF ~written
                      THEN /\ ev' = << read, fetch, route, spawn, write >>
                           /\ Exit("store_write")
                           /\ UNCHANGED last_comment_time
                      ELSE /\ ev' = << read, fetch, route, spawn, write >>
                           /\ last_comment_time' = LastCommentTimeAfter(issue_num, new_comments)
                           /\ queue' = Tail(queue)
                           /\ UNCHANGED <<pc, exit_cause>>
  /\ UNCHANGED <<activity_vars, poll_interval, cur, records, plan_exists, tracker, planned, keep_history, rt_vars, at_vars>>

\* main.rs 139-140: the conversation loop is through
ConvDone ==
  /\ pc = "conv_loop"
  /\ queue = << >>
  /\ pc' = "activity"
  /\ ev' = << >>
  /\ UNCHANGED <<exit_cause, activity_vars, poll_interval, activity_detected, queue,
                 cur, store_vars, tracker, planned, keep_history, rt_vars, at_vars>>

\* main.rs 147-173: the activity state is updated from what was detected so far
ActivityUpdate ==
  /\ pc = "activity"
  /\ \E since \in ReadingsFrom(elapsed) :
       /\ activity_state' = UpdatedActivityState(activity_detected, activity_state, since)
       /\ elapsed' = UpdatedElapsed(activity_detected, since)
       \* last_activity.elapsed().as_secs()
       /\ ev' = << [Call("elapsed", 0, TRUE, "update", FALSE) EXCEPT !.delivered = << since >>] >>
  /\ pc' = "get_prs"
  /\ UNCHANGED <<exit_cause, poll_interval, activity_detected, queue, cur, store_vars,
                 tracker, planned, keep_history, rt_vars, at_vars>>

\* GitHubClient::get_automation_prs: (pr_number, issue_number) pairs of PRs the
\* automation opened, each for a tracked issue
PrNumber(i) == 100 + i

AutomationPrs(S) == [k \in 1..Len(SetToSeq(S)) |-> <<PrNumber(SetToSeq(S)[k]), SetToSeq(S)[k]>>]

\* A variant in which a failure to list the automation PRs ends main.
GetAutomationPrs_fatal ==
  /\ pc = "get_prs"
  /\ \E ok \in BOOLEAN :
       /\ ev' = << Call("get_automation_prs", 0, ok, "pr", FALSE) >>
       /\ IF ok
          THEN \E with_pr \in SUBSET records :
                 /\ queue' = AutomationPrs(with_pr)
                 /\ pc' = "pr_loop"
                 /\ UNCHANGED exit_cause
          ELSE Exit("tracker")
  /\ UNCHANGED <<activity_vars, poll_interval, activity_detected, cur,
                 store_vars, tracker, planned, keep_history, rt_vars, at_vars>>

\* main.rs 176-177, 200-203: github.get_automation_prs(); an error is logged
GetAutomationPrs ==
  /\ pc = "get_prs"
  /\ \E ok \in BOOLEAN :
       /\ ev' = << Call("get_automation_prs", 0, ok, "pr", FALSE) >>
       /\ IF ok
          THEN \E with_pr \in SUBSET records :
                 /\ queue' = AutomationPrs(with_pr)
                 /\ pc' = "pr_loop"
          ELSE /\ queue' = << >>
               /\ pc' = "monitor"
  /\ UNCHANGED <<exit_cause, activity_vars, poll_interval, activity_detected, cur,
                 store_vars, tracker, planned, keep_history, rt_vars, at_vars>>

\* A variant of the PR loop that fetches every comment of the PR, not only
\* those after the stored last_comment_time.
PrItem_from_start ==
  /\ pc = "pr_loop"
  /\ queue # << >>
  /\ LET pr_number == Head(queue)[1]
         issue_number == Head(queue)[2]
         tracked == issue_number \in records
         read == Call("last_comment_time", issue_number, TRUE, "pr", tracked)
     IN
     \/ \* db.last_comment_time(issue_number)? fails
        /\ ev' = << [read EXCEPT !.ok = FALSE] >>
        /\ Exit("store_read")
        /\ UNCHANGED <<activity_detected, last_comment_time>>
     \/ \* get_pr_comments fails: logged
        /\ ev' = << read, Call("get_pr_comments", issue_number, FALSE, "pr", tracked) >>
        /\ queue' = Tail(queue)
        /\ UNCHANGED <<pc, exit_cause, activity_detected, last_comment_time>>
     \/ \E new_comments \in NewComments(issue_number, "pr", 0) :
          LET fetch == [Call("get_pr_comments", issue_number, TRUE, "pr", tracked)
                          EXCEPT !.delivered = new_comments] IN
          IF Len(new_comments) = 0
          THEN /\ ev' = << read, fetch >>
               /\ queue' = Tail(queue)
               /\ UNCHANGED <<pc, exit_cause, activity_detected, last_comment_time>>
          ELSE
            /\ activity_detected' = TRUE
            /\ \E spawned \in BOOLEAN, written \in BOOLEAN :
                 LET spawn == Call("spawn_executor", issue_number, spawned, "pr", tracked)
                     write == Call("add_comments", issue_number, written, "pr", tracked)
                 IN
                 /\ ev' = << read, fetch, spawn, write >>
                 /\ IF ~written
                    THEN /\ Exit("store_write")
                         /\ UNCHANGED last_comment_time
                    ELSE /\ last_comment_time' = LastCommentTimeAfter(issue_number, new_comments)
                         /\ queue' = Tail(queue)
                         /\ UNCHANGED <<pc, exit_cause>>
  /\ UNCHANGED <<activity_vars, poll_interval, cur, records, plan_exists, tracker, planned, keep_history, rt_vars, at_vars>>

\* A variant of the PR loop that asks the router which agent to spawn.
PrItem_routed ==
  /\ pc = "pr_loop"
  /\ queue # << >>
  /\ LET pr_number == Head(queue)[1]
         issue_number == Head(queue)[2]
         tracked == issue_number \in records
         read == Call("last_comment_time", issue_number, TRUE, "pr", tracked)
     IN
     \/ \* db.last_comment_time(issue_number)? fails
        /\ ev' = << [read EXCEPT !.ok = FALSE] >>
        /\ Exit("store_read")
        /\ UNCHANGED <<activity_detected, last_comment_time>>
     \/ \* get_pr_comments fails: logged
        /\ ev' = << read, Call("get_pr_comments", issue_number, FALSE, "pr", tracked) >>
        /\ queue' = Tail(queue)
        /\ UNCHANGED <<pc, exit_cause, activity_detected, last_comment_time>>
     \/ \E new_comments \in NewComments(issue_number, "pr", last_comment_time[issue_number]) :
          LET fetch == [Call("get_pr_comments", issue_number, TRUE, "pr", tracked)
                          EXCEPT !.delivered = new_comments] IN
          IF Len(new_comments) = 0
          THEN /\ ev' = << read, fetch >>
               /\ queue' = Tail(queue)
               /\ UNCHANGED <<pc, exit_cause, activity_detected, last_comment_time>>
          ELSE
            /\ activity_detected' = TRUE
            /\ \E spawned \in BOOLEAN, written \in BOOLEAN :
                 LET spawn == Call(SpawnOpOf(decide(new_comments, HasPlanAnswers(TRUE))),
                                   issue_number, spawned, "pr", tracked)
                     write == Call("add_comments", issue_number, written, "pr", tracked)
                 IN
                 /\ ev' = << read, fetch, spawn, write >>
                 /\ IF ~written
                    THEN /\ Exit("store_write")
                         /\ UNCHANGED last_comment_time
                    ELSE /\ last_comment_time' = LastCommentTimeAfter(issue_number, new_comments)
                         /\ queue' = Tail(queue)
                         /\ UNCHANGED <<pc, exit_cause>>
  /\ UNCHANGED <<activity_vars, poll_interval, cur, records, plan_exists, tracker, planned, keep_history, rt_vars, at_vars>>

\* A variant of the PR loop that does not record PR comments under the
\* linked issue's last_comment_time.
PrItem_unrecorded ==
  /\ pc = "pr_loop"
  /\ queue # << >>
  /\ LET pr_number == Head(queue)[1]
         issue_number == Head(queue)[2]
         tracked == issue_number \in records
         read == Call("last_comment_time", issue_number, TRUE, "pr", tracked)
     IN
     \/ \* db.last_comment_time(issue_number)? fails
        /\ ev' = << [read EXCEPT !.ok = FALSE] >>
        /\ Exit("store_read")
        /\ UNCHANGED <<activity_detected, last_comment_time>>
     \/ \* get_pr_comments fails: logged
        /\ ev' = << read, Call("get_pr_comments", issue_number, FALSE, "pr", tracked) >>
        /\ queue' = Tail(queue)
        /\ UNCHANGED <<pc, exit_cause, activity_detected, last_comment_time>>
     \/ \E new_comments \in NewComments(issue_number, "pr", last_comment_time[issue_number]) :
          LET fetch == [Call("get_pr_comments", issue_number, TRUE, "pr", tracked)
                          EXCEPT !.delivered = new_comments] IN
          IF Len(new_comments) = 0
          THEN /\ ev' = << read, fetch >>
               /\ queue' = Tail(queue)
               /\ UNCHANGED <<pc, exit_cause, activity_detected, last_comment_time>>
          ELSE
            /\ activity_detected' = TRUE
            /\ \E spawned \in BOOLEAN, written \in BOOLEAN :
                 LET spawn == Call("spawn_executor", issue_number, spawned, "pr", tracked)
                     write == Call("add_comments", issue_number, written, "pr", tracked)
                 IN
                 /\ ev' = << read, fetch, spawn, write >>
                 /\ IF ~written
                    THEN /\ Exit("store_write")
                         /\ UNCHANGED last_comment_time
                    ELSE /\ UNCHANGED last_comment_time
                         /\ queue' = Tail(queue)
                         /\ UNCHANGED <<pc, exit_cause>>
  /\ UNCHANGED <<activity_vars, poll_interval, cur, records, plan_exists, tracker, planned, keep_history, rt_vars, at_vars>>

\* A variant of the PR loop that records the comments only when the
\* Executor spawn succeeded.
PrItem_record_on_success ==
  /\ pc = "pr_loop"
  /\ queue # << >>
  /\ LET pr_number == Head(queue)[1]
         issue_number == Head(queue)[2]
         tracked == issue_number \in records
         read == Call("last_comment_time", issue_number, TRUE, "pr", tracked)
     IN
     \/ \* db.last_comment_time(issue_number)? fails
        /\ ev' = << [read EXCEPT !.ok = FALSE] >>
        /\ Exit("store_read")
        /\ UNCHANGED <<activity_detected, last_comment_time>>
     \/ \* get_pr_comments fails: logged
        /\ ev' = << read, Call("get_pr_comments", issue_number, FALSE, "pr", tracked) >>
        /\ queue' = Tail(queue)
        /\ UNCHANGED <<pc, exit_cause, activity_detected, last_comment_time>>
     \/ \E new_comments \in NewComments(issue_number, "pr", last_comment_time[issue_number]) :
          LET fetch == [Call("get_pr_comments", issue_number, TRUE, "pr", tracked)
                          EXCEPT !.delivered = new_comments] IN
          IF Len(new_comments) = 0
          THEN /\ ev' = << read, fetch >>
               /\ queue' = Tail(queue)
               /\ UNCHANGED <<pc, exit_cause, activity_detected, last_comment_time>>
          ELSE
            /\ activity_detected' = TRUE
            /\ \E spawned \in BOOLEAN, written \in BOOLEAN :
                 LET spawn == Call("spawn_executor", issue_number, spawned, "pr", tracked)
                     write == Call("add_comments", issue_number, written, "pr", tracked)
                 IN
                 /\ ev' = IF spawned THEN << read, fetch, spawn, write >>
                                     ELSE << read, fetch, spawn >>
                 /\ IF ~spawned
                    THEN /\ queue' = Tail(queue)
                         /\ UNCHANGED <<pc, exit_cause, last_comment_time>>
                    ELSE IF ~written
                    THEN /\ Exit("store_write")
                         /\ UNCHANGED last_comment_time
                    ELSE /\ last_comment_time' = LastCommentTimeAfter(issue_number, new_comments)
                         /\ queue' = Tail(queue)
                         /\ UNCHANGED <<pc, exit_cause>>
  /\ UNCHANGED <<activity_vars, poll_interval, cur, records, plan_exists, tracker, planned, keep_history, rt_vars, at_vars>>

\* main.rs 178-198: one iteration of the PR loop
PrItem ==
  /\ pc = "pr_loop"
  /\ queue # << >>
  /\ LET pr_number == Head(queue)[1]
         issue_number == Head(queue)[2]
         tracked == issue_number \in records
         read == Call("last_comment_time", issue_number, TRUE, "pr", tracked)
     IN
     \/ \* db.last_comment_time(issue_number)? fails
        /\ ev' = << [read EXCEPT !.ok = FALSE] >>
        /\ Exit("store_read")
        /\ UNCHANGED <<activity_detected, last_comment_time>>
     \/ \* get_pr_comments fails: logged
        /\ ev' = << read, Call("get_pr_comments", issue_number, FALSE, "pr", tracked) >>
        /\ queue' = Tail(queue)
        /\ UNCHANGED <<pc, exit_cause, activity_detected, last_comment_time>>
     \/ \E new_comments \in NewComments(issue_number, "pr", last_comment_time[issue_number]) :
          LET fetch == [Call("get_pr_comments", issue_number, TRUE, "pr", tracked)
                          EXCEPT !.delivered = new_comments] IN
          IF Len(new_comments) = 0
          THEN /\ ev' = << read, fetch >>
               /\ queue' = Tail(queue)
               /\ UNCHANGED <<pc, exit_cause, activity_detected, last_comment_time>>
          ELSE
            /\ activity_detected' = TRUE
            /\ \E spawned \in BOOLEAN, written \in BOOLEAN :
                 LET spawn == Call("spawn_executor", issue_number, spawned, "pr", tracked)
                     write == Call("add_comments", issue_number, written, "pr", tracked)
                 IN
                 /\ ev' = << read, fetch, spawn, write >>
                 /\ IF ~written
                    THEN /\ Exit("store_write")
                         /\ UNCHANGED last_comment_time
                    ELSE /\ last_comment_time' = LastCommentTimeAfter(issue_number, new_comments)
                         /\ queue' = Tail(queue)
                         /\ UNCHANGED <<pc, exit_cause>>
  /\ UNCHANGED <<activity_vars, poll_interval, cur, records, plan_exists, tracker, planned, keep_history, rt_vars, at_vars>>

\* main.rs 198-199: the PR loop is through
PrDone ==
  /\ pc = "pr_loop"
  /\ queue = << >>
  /\ pc' = "monitor"
  /\ ev' = << >>
  /\ UNCHANGED <<exit_cause, activity_vars, poll_interval, activity_detected, queue,
                 cur, store_vars, tracker, planned, keep_history, rt_vars, at_vars>>

\* A variant in which a monitoring error skips the cleanup of this cycle.
MonitorSessions_skipping ==
  /\ pc = "monitor"
  /\ \E ok \in BOOLEAN :
       /\ ev' = << Call("monitor_sessions", 0, ok, "monitor", FALSE) >>
       /\ pc' = IF ok THEN "cleanup" ELSE "sleep"
  /\ UNCHANGED <<exit_cause, activity_vars, poll_interval, activity_detected, queue,
                 cur, store_vars, tracker, planned, keep_history, rt_vars, at_vars>>

\* main.rs 206-208: session::monitor_sessions; an error is logged
MonitorSessions ==
  /\ pc = "monitor"
  /\ \E ok \in BOOLEAN : ev' = << Call("monitor_sessions", 0, ok, "monitor", FALSE) >>
  /\ pc' = "cleanup"
  /\ UNCHANGED <<exit_cause, activity_vars, poll_interval, activity_detected, queue,
                 cur, store_vars, tracker, planned, keep_history, rt_vars, at_vars>>

\* main.rs 211-213: worktree::cleanup_old_worktrees; an error is logged
CleanupWorktrees ==
  /\ pc = "cleanup"
  /\ \E ok \in BOOLEAN : ev' = << Call("cleanup_old_worktrees", 0, ok, "cleanup", FALSE) >>
  /\ pc' = "sleep"
  /\ UNCHANGED <<exit_cause, activity_vars, poll_interval, activity_detected, queue,
                 cur, store_vars, tracker, planned, keep_history, rt_vars, at_vars>>

\* A variant of the sleep during which no time passes.
Sleep_timeless ==
  /\ pc = "sleep"
  /\ pc' = "loop_top"
  /\ ev' = << >>
  /\ UNCHANGED <<exit_cause, activity_vars, poll_interval, activity_detected, queue,
                 cur, store_vars, tracker, planned, keep_history, rt_vars, at_vars>>

\* main.rs 215: sleep(poll_interval), then the next cycle
Sleep ==
  /\ pc = "sleep"
  /\ elapsed' = ElapsedAfter(elapsed, poll_interval)
  /\ pc' = "loop_top"
  /\ ev' = << >>
  /\ UNCHANGED <<exit_cause, activity_state, poll_interval, activity_detected, queue,
                 cur, store_vars, tracker, planned, keep_history, rt_vars, at_vars>>

\* The daemon sees the tracker only when it fetches comments, so a comment
\* posted at any other moment is placed just ahead of the next fetch phase.
CommentsObservable == pc \in {"get_active", "get_prs"}

\* The plan flag matters when a session is spawned: a plan posted at any
\* other moment is placed at the wait or just ahead of the next phase.
PlanObservable == pc \in {"handoff", "get_active", "get_prs"}

\* created_at of the next comment: the second of the newest comment so far,
\* or a later one.
ServerTimes ==
  LET newest == MaxOf({ c.created_at : c \in tracker })
  IN  { newest, newest + 1 } \ { 0 }

\* Someone comments on a tracked issue or on its PR; the tracker's clock
\* never runs backwards.
PostComment ==
  /\ CommentsObservable
  /\ Cardinality(tracker) < MaxComments
  /\ \E i \in records, k \in CommentKinds, ts \in ServerTimes : \E b \in BodiesOf(k) :
       /\ TrackerComment(i, k, ts, b) \notin tracker
       /\ tracker' = tracker \cup { TrackerComment(i, k, ts, b) }
  /\ UNCHANGED <<pc, exit_cause, activity_vars, poll_interval, activity_detected, queue,
                 cur, store_vars, ev, planned, keep_history, rt_vars, at_vars>>

\* The Planner of a tracked issue posts its plan.
PostPlan ==
  /\ PlanObservable
  /\ \E i \in records \ plan_exists : plan_exists' = plan_exists \cup {i}
  /\ UNCHANGED <<pc, exit_cause, activity_vars, poll_interval, activity_detected, queue,
                 cur, records, last_comment_time, tracker, ev, planned, keep_history, rt_vars, at_vars>>

Next ==
  \/ Startup
  \/ LoopTop
  \/ PollTriggers
  \/ TriggerIssue
  \/ Handoff
  \/ TriggerDone
  \/ GetActiveIssues
  \/ ConvIssue
  \/ ConvDone
  \/ ActivityUpdate
  \/ GetAutomationPrs
  \/ PrItem
  \/ PrDone
  \/ MonitorSessions
  \/ CleanupWorktrees
  \/ Sleep
  \/ PostComment
  \/ PostPlan

Spec == Init /\ [][Next]_vars

\* The same loop, remembering which issues the last two scans spawned a
\* Planner for.
ScanInit == DaemonInit /\ keep_history = TRUE /\ RouterIdle /\ ActivityIdle

ScanSpec == ScanInit /\ [][Next]_vars

(***************************************************************************)
(* The loop with nobody commenting, every statement of main eventually     *)
(* returning: main runs on one task and awaits each call in turn.          *)
(***************************************************************************)
MainNext ==
  \/ Startup
  \/ LoopTop
  \/ PollTriggers
  \/ TriggerIssue
  \/ Handoff
  \/ TriggerDone
  \/ GetActiveIssues
  \/ ConvIssue
  \/ ConvDone
  \/ ActivityUpdate
  \/ GetAutomationPrs
  \/ PrItem
  \/ PrDone
  \/ MonitorSessions
  \/ CleanupWorktrees
  \/ Sleep

FairSpec == Init /\ [][MainNext]_vars /\ WF_vars(MainNext)

(***************************************************************************)
(* One cycle of the loop, started on a store that may already track some   *)
(* issues, remembering which issues this cycle's scan spawned a Planner    *)
(* for.                                                                    *)
(***************************************************************************)
CycleInit ==
  /\ pc = "startup"
  /\ exit_cause = "none"
  /\ activity_state = "Idle"
  /\ elapsed = 0
  /\ poll_interval = PollIntervalIdleSecs
  /\ activity_detected = FALSE
  /\ queue = << >>
  /\ cur = 0
  /\ records \in SUBSET Issues
  /\ plan_exists \in SUBSET records
  /\ last_comment_time = [i \in Issues |-> 0]
  /\ tracker = {}
  /\ ev = << >>
  /\ planned = [i \in Issues |-> 0]
  /\ keep_history = TRUE
  /\ RouterIdle
  /\ ActivityIdle

\* Everything up to the end-of-cycle sleep.
CycleNext ==
  \/ Startup
  \/ LoopTop
  \/ PollTriggers
  \/ TriggerIssue
  \/ Handoff
  \/ TriggerDone
  \/ GetActiveIssues
  \/ ConvIssue
  \/ ConvDone
  \/ ActivityUpdate
  \/ GetAutomationPrs
  \/ PrItem
  \/ PrDone
  \/ MonitorSessions
  \/ CleanupWorktrees
  \/ PostComment
  \/ PostPlan

CycleSpec == CycleInit /\ [][CycleNext]_vars

(***************************************************************************)
(* The loop restarted on a store that already tracks issue 1, with an      *)
(* issue comment and a PR comment posted for it while the daemon was down. *)
(***************************************************************************)
\* The seconds the two waiting comments were created at.
WaitingTimes == {1, 2}

WatermarkInit ==
  /\ pc = "loop_top"
  /\ exit_cause = "none"
  /\ activity_state = "Idle"
  /\ elapsed = 0
  /\ poll_interval = PollIntervalIdleSecs
  /\ activity_detected = FALSE
  /\ queue = << >>
  /\ cur = 0
  /\ records = {1}
  /\ plan_exists \in SUBSET {1}
  /\ last_comment_time = [i \in Issues |-> 0]
  /\ \E t1 \in WaitingTimes, t2 \in WaitingTimes : \E b \in BodiesOf("issue") :
       tracker = { TrackerComment(1, "issue", t1, b),
                   TrackerComment(1, "pr", t2, KeywordBody) }
  /\ ev = << >>
  /\ planned = [i \in Issues |-> 0]
  /\ keep_history = FALSE
  /\ RouterIdle
  /\ ActivityIdle

\* The loop and the Planner's plan; nobody comments any more.
WatermarkNext ==
  \/ LoopTop
  \/ PollTriggers
  \/ TriggerIssue
  \/ Handoff
  \/ TriggerDone
  \/ GetActiveIssues
  \/ ConvIssue
  \/ ConvDone
  \/ ActivityUpdate
  \/ GetAutomationPrs
  \/ PrItem
  \/ PrDone
  \/ MonitorSessions
  \/ CleanupWorktrees
  \/ Sleep
  \/ PostPlan

WatermarkSpec == WatermarkInit /\ [][WatermarkNext]_vars

(***************************************************************************)
(* The router on its own: decide applied once to each choice of arguments. *)
(***************************************************************************)
RouterInit ==
  /\ DaemonInit
  /\ keep_history = FALSE
  /\ rt_comments \in CommentSeqs
  /\ rt_db \in [Issues -> PlanAnswers]
  /\ rt_result = "none"
  /\ ActivityIdle

\* One call of agent_router::decide on the chosen arguments.
RouterCall ==
  /\ rt_result = "none"
  /\ rt_result' = decide(rt_comments, rt_db)
  /\ UNCHANGED <<rt_comments, rt_db, daemon_vars, at_vars>>

RouterNext == RouterCall

RouterSpec == RouterInit /\ [][RouterNext]_vars

(***************************************************************************)
(* The activity update on its own: main.rs 147-173 applied once to each    *)
(* activity flag, previous state and reading of last_activity.elapsed(),   *)
(* followed by the interval lookup of the next loop head.                  *)
(***************************************************************************)
\* Every whole second up to just past the timeout.
Readings == 0..ElapsedCap

ActivityInit ==
  /\ DaemonInit
  /\ keep_history = FALSE
  /\ RouterIdle
  /\ at_detected \in BOOLEAN
  /\ at_state \in ActivityState
  /\ at_since \in Readings
  /\ at_result = "none"
  /\ at_elapsed = at_since
  /\ at_interval = PollIntervalOf(at_state)

\* One activity update, then the interval the next cycle polls with.
ActivityCall ==
  /\ at_result = "none"
  /\ at_result' = UpdatedActivityState(at_detected, at_state, at_since)
  /\ at_elapsed' = UpdatedElapsed(at_detected, at_since)
  /\ at_interval' = PollIntervalOf(at_result')
  /\ UNCHANGED <<at_detected, at_state, at_since, daemon_vars, rt_vars>>

ActivityNext == ActivityCall

ActivitySpec == ActivityInit /\ [][ActivityNext]_vars

(***************************************************************************)
(* Properties.                                                             *)
(***************************************************************************)
\* The calls of the last step that are `op` made in `phase`.
CallsOf(e, op, phase) == { k \in 1..Len(e) : e[k].op = op /\ e[k].phase = phase }

\* C1: for a labeled issue, two consecutive trigger scans request at most one
\* Planner: once a scan has spawned a Planner for the issue, neither that scan
\* nor the next one requests another Planner for it.
C1_ConsecutiveScansSpawnOnce ==
  [][ pc = "trigger_loop" =>
        \A k \in CallsOf(ev', "spawn_planner", "trigger") : planned[ev'[k].issue] = 0 ]_vars

\* C2: the trigger phase never requests a Planner for an issue that already
\* has an AutomationRecord, whatever the existence query answers.
C2_TrackedIssueNeverRespawned ==
  \A k \in CallsOf(ev, "spawn_planner", "trigger") : ~ev[k].tracked

\* The calls made while one issue or PR is handled.
PerIssueOps ==
  { "last_comment_time", "get_new_comments", "get_pr_comments", "decide",
    "spawn_planner_with_context", "spawn_executor", "add_comments" }

\* C3: when a call made for one issue fails in the conversation-poll or
\* PR-feedback phase, the loop of that phase goes on with the remaining
\* issues: main does not return.
C3_IssueErrorsAreIsolated ==
  (\E k \in 1..Len(ev) :
      /\ ev[k].phase \in {"conversation", "pr"}
      /\ ev[k].op \in PerIssueOps
      /\ ~ev[k].ok)
  => pc \in {"conv_loop", "pr_loop"}

\* C4: the process exits only on a startup failure, and then nothing has been
\* polled or spawned: no call was made and no issue is tracked.
C4_OnlyStartupFailureExits ==
  pc = "exited" => (exit_cause = "startup" /\ ev = << >> /\ records = {})

RouterDone == rt_result # "none"

LastOf(s) == s[Len(s)]

\* Bodies that hold a re-planning keyword by the way they are put together.
KeywordBearing ==
  { p \o c \o x : p \in Prefixes, c \in KeywordCores, x \in Suffixes }
  \cup { p \o INSTEAD \o OF_IT : p \in Prefixes }

\* Bodies that hold none.
KeywordFree == Bodies \ KeywordBearing

\* C5: decide returns Planner whenever the most recent comment holds a
\* re-planning keyword in any letter case, whatever has_plan answers.
C5_KeywordSelectsPlanner ==
  (RouterDone /\ Len(rt_comments) > 0 /\ LastOf(rt_comments).body \in KeywordBearing)
  => rt_result = "Planner"

C5_Witness ==
  /\ rt_result = "Planner"
  /\ Len(rt_comments) > 0
  /\ LastOf(rt_comments).body = PLEASE \o REDESIGN
  /\ rt_db[LastOf(rt_comments).issue_number] = "true"

\* C6: for a non-empty comment sequence whose most recent comment holds no
\* keyword, decide returns Planner when has_plan is false and Executor when
\* it is true.
C6_PlanDecidesWithoutKeyword ==
  (RouterDone /\ Len(rt_comments) > 0 /\ LastOf(rt_comments).body \in KeywordFree)
  => /\ rt_db[LastOf(rt_comments).issue_number] = "false" => rt_result = "Planner"
     /\ rt_db[LastOf(rt_comments).issue_number] = "true" => rt_result = "Executor"

C6_Witness ==
  /\ rt_result = "Executor"
  /\ Len(rt_comments) > 0
  /\ LastOf(rt_comments).body = PlainBody
  /\ rt_db[LastOf(rt_comments).issue_number] = "true"

\* C7: decide returns Executor for an empty comment sequence whatever
\* has_plan would answer, also when no plan exists or the store fails.
C7_EmptySelectsExecutor ==
  (RouterDone /\ Len(rt_comments) = 0) => rt_result = "Executor"

C7_Witness ==
  /\ rt_result = "Executor"
  /\ Len(rt_comments) = 0
  /\ \A i \in Issues : rt_db[i] = "false"

\* C8: decide looks at the most recent comment only: the result is that of
\* the most recent comment alone, so a keyword in an earlier comment does
\* not select Planner.
C8_OnlyLastCommentCounts ==
  (RouterDone /\ Len(rt_comments) > 0)
  => /\ rt_result = decide(<< LastOf(rt_comments) >>, rt_db)
     /\ ( /\ LastOf(rt_comments).body \in KeywordFree
          /\ rt_db[LastOf(rt_comments).issue_number] = "true" )
        => rt_result = "Executor"

C8_Witness ==
  /\ rt_result = "Executor"
  /\ Len(rt_comments) > 1
  /\ rt_comments[1].body \in KeywordBearing
  /\ LastOf(rt_comments).body = PlainBody

\* C9: decide returns an Agent for every input, never an error, whether or
\* not the state store can be read.
C9_DecideIsTotal ==
  RouterDone => rt_result \in Agent

\* C10: in trigger handling a successful spawn_planner for an issue is
\* followed by the grace wait and then by exactly one spawn_executor call
\* for that issue, before anything else is handled; the trigger phase calls
\* spawn_executor nowhere else.
C10_PlannerThenOneExecutor ==
  [][ /\ pc = "trigger_loop" =>
           \A k \in CallsOf(ev', "spawn_planner", "trigger") :
              ev'[k].ok => (pc' = "handoff" /\ cur' = ev'[k].issue)
      /\ pc = "handoff" =>
           \/ (pc' = "handoff" /\ cur' = cur /\ ev' = ev)
           \/ /\ pc' = "trigger_loop"
              /\ Len(ev') = 1
              /\ ev'[1].op = "spawn_executor"
              /\ ev'[1].phase = "trigger"
              /\ ev'[1].issue = cur
      /\ pc # "handoff" => CallsOf(ev', "spawn_executor", "trigger") = {}
    ]_vars

\* The automatic Executor spawn has failed and the trigger loop goes on.
C10_Witness ==
  /\ pc = "trigger_loop"
  /\ Len(ev) = 1
  /\ ev[1].op = "spawn_executor"
  /\ ev[1].phase = "trigger"
  /\ ~ev[1].ok
  /\ queue # << >>

\* C11: when the automatic Executor handoff for a newly triggered issue is
\* attempted, the issue's AutomationRecord is already in the state store:
\* the issue is tracked throughout the grace wait and at the handoff call.
C11_RecordBeforeHandoff ==
  /\ pc = "handoff" => cur \in records
  /\ \A k \in CallsOf(ev, "spawn_executor", "trigger") :
        ev[k].tracked /\ ev[k].issue \in records

\* The handoff has been attempted for an issue that had no record when the
\* scan began handling it.
C11_Witness ==
  /\ pc = "trigger_loop"
  /\ Len(ev) = 1
  /\ ev[1].op = "spawn_executor"
  /\ ev[1].phase = "trigger"
  /\ ev[1].tracked
  /\ records = { ev[1].issue }

\* The comment fetches of a step that succeeded.
Fetches(e) ==
  { k \in 1..Len(e) : e[k].op \in {"get_new_comments", "get_pr_comments"} /\ e[k].ok }

\* C12: per issue the stored last_comment_time never moves back, every
\* comment a poll delivers is newer than the last_comment_time stored before
\* the poll, every delivered comment that has been handled is covered by the
\* last_comment_time stored after it, and a poll that delivers nothing
\* spawns no agent.
C12_CommentObservationMonotonic ==
  [][ (pc = "conv_loop" \/ pc = "pr_loop") =>
        /\ \A i \in Issues : last_comment_time'[i] >= last_comment_time[i]
        /\ \A k \in Fetches(ev') : \A n \in 1..Len(ev'[k].delivered) :
              /\ ev'[k].delivered[n].issue_number = ev'[k].issue
              /\ ev'[k].delivered[n].created_at > last_comment_time[ev'[k].issue]
              /\ pc' # "exited" =>
                   ev'[k].delivered[n].created_at <= last_comment_time'[ev'[k].issue]
        /\ (\E k \in 1..Len(ev') :
               ev'[k].op \in {"spawn_executor", "spawn_planner_with_context"})
           => \E k \in Fetches(ev') : Len(ev'[k].delivered) > 0
    ]_vars

\* An issue whose comment was handled before is polled again with the
\* conversation unchanged: nothing is delivered and nothing is spawned.
C12_Witness ==
  /\ pc = "conv_loop"
  /\ Len(ev) = 2
  /\ ev[2].op = "get_new_comments"
  /\ ev[2].ok
  /\ ev[2].delivered = << >>
  /\ last_comment_time[ev[2].issue] > 0
  /\ \E c \in tracker : c.issue_number = ev[2].issue /\ c.kind = "issue"

ActivityDone == at_result # "none"

\* C13: with activity detected the update gives VeryActive when the gap since
\* last_activity is below 120 s and Active from exactly 120 s on, whatever
\* the state was before, and last_activity becomes now.
C13_ActivityDetectedUpdate ==
  (ActivityDone /\ at_detected)
  => /\ at_since <= 119 => at_result = "VeryActive"
     /\ at_since >= 120 => at_result = "Active"
     /\ at_elapsed = 0

\* Activity after exactly 120 s, coming from VeryActive.
C13_Witness ==
  /\ ActivityDone
  /\ at_detected
  /\ at_since = 120
  /\ at_state = "VeryActive"
  /\ at_result = "Active"
  /\ at_elapsed = 0

\* C14: with no activity detected the update gives Idle when idle_for is
\* above the timeout; otherwise Active when the state was VeryActive and
\* idle_for is above 120 s; otherwise the state it had; last_activity is
\* not touched.
C14_NoActivityUpdate ==
  (ActivityDone /\ ~at_detected)
  => /\ at_since > ActivityTimeoutSecs => at_result = "Idle"
     /\ (at_since <= ActivityTimeoutSecs /\ at_since > 120 /\ at_state = "VeryActive")
        => at_result = "Active"
     /\ (at_since <= ActivityTimeoutSecs /\ ~(at_since > 120 /\ at_state = "VeryActive"))
        => at_result = at_state
     /\ at_elapsed = at_since

\* No activity past the timeout, coming from VeryActive.
C14_Witness ==
  /\ ActivityDone
  /\ ~at_detected
  /\ at_state = "VeryActive"
  /\ at_since > ActivityTimeoutSecs
  /\ at_result = "Idle"
  /\ at_elapsed = at_since

\* C15: over every run of the loop the activity state changes only in the
\* activity update; an update without detected activity never moves to a
\* state with a shorter poll interval; a step from Idle to VeryActive is
\* taken only with activity detected; a step from VeryActive to Idle is
\* taken only without activity and with idle_for above the timeout.
C15_ActivityMonotonic ==
  [][ /\ pc # "activity" => activity_state' = activity_state
      /\ (pc = "activity" /\ ~activity_detected)
         => PollIntervalOf(activity_state') >= PollIntervalOf(activity_state)
      /\ (activity_state = "Idle" /\ activity_state' = "VeryActive")
         => (pc = "activity" /\ activity_detected)
      /\ (activity_state = "VeryActive" /\ activity_state' = "Idle")
         => (pc = "activity" /\ ~activity_detected /\ elapsed' > ActivityTimeoutSecs)
    ]_vars

\* A cycle that began VeryActive has just fallen to Idle on the timeout.
C15_Witness ==
  /\ pc = "get_prs"
  /\ poll_interval = PollIntervalVeryActiveSecs
  /\ activity_state = "Idle"
  /\ ~activity_detected
  /\ elapsed > ActivityTimeoutSecs

\* A cycle that began Idle has just risen to VeryActive on detected activity.
C15_WitnessUp ==
  /\ pc = "get_prs"
  /\ poll_interval = PollIntervalIdleSecs
  /\ activity_state = "VeryActive"
  /\ activity_detected

\* The activity state the harness's poll interval was looked up for.
IntervalState == IF ActivityDone THEN at_result ELSE at_state

\* The fixed table with the intervals 60/15/5.
IntervalIsLookup ==
  /\ IntervalState = "Idle" => at_interval = 60
  /\ IntervalState = "Active" => at_interval = 15
  /\ IntervalState = "VeryActive" => at_interval = 5

\* C16 as stated: the poll interval is the table lookup on the activity
\* state; VeryActive yields 5; from VeryActive, 130 s without activity
\* yield 15; once activity_timeout_minutes have passed without activity
\* the interval is 60.
C16_AsStated ==
  /\ IntervalIsLookup
  /\ (ActivityDone /\ ~at_detected /\ at_state = "VeryActive" /\ at_since = 130)
     => at_interval = 15
  /\ (ActivityDone /\ ~at_detected /\ at_since >= ActivityTimeoutMinutes * 60)
     => at_interval = 60

\* C16: the poll interval is the table lookup on the activity state;
\* VeryActive yields 5; from VeryActive, 130 s without activity yield 15;
\* once more than activity_timeout_minutes have passed without activity the
\* interval is 60, while at exactly activity_timeout_minutes the state and
\* its interval are those an update inside the timeout gives.
C16_PollIntervalSelection ==
  /\ IntervalIsLookup
  /\ (ActivityDone /\ ~at_detected /\ at_state = "VeryActive" /\ at_since = 130)
     => at_interval = 15
  /\ (ActivityDone /\ ~at_detected /\ at_since > ActivityTimeoutMinutes * 60)
     => at_interval = 60
  /\ (ActivityDone /\ ~at_detected /\ at_since = ActivityTimeoutMinutes * 60)
     => at_interval = (IF at_state = "Idle" THEN 60 ELSE 15)

\* No activity for one second more than the timeout, coming from VeryActive.
C16_Witness ==
  /\ ActivityDone
  /\ ~at_detected
  /\ at_state = "VeryActive"
  /\ at_since = ActivityTimeoutMinutes * 60 + 1
  /\ at_interval = 60

\* C17: in the PR-feedback phase the router is never called and no Planner
\* is spawned; whenever a PR's fetch delivers comments, the step spawns
\* exactly one session, an Executor for the issue the PR is linked to.
C17_PrFeedbackSpawnsExecutor ==
  /\ \A k \in 1..Len(ev) :
        ev[k].phase = "pr"
        => ev[k].op \notin {"decide", "spawn_planner", "spawn_planner_with_context"}
  /\ \A k \in 1..Len(ev) :
        (ev[k].op = "get_pr_comments" /\ ev[k].ok /\ Len(ev[k].delivered) > 0)
        => /\ Cardinality(CallsOf(ev, "spawn_executor", "pr")) = 1
           /\ \A n \in CallsOf(ev, "spawn_executor", "pr") :
                 n > k /\ ev[n].issue = ev[k].issue

\* PR comments holding a re-planning keyword were found for an issue without
\* a plan, and an Executor was spawned.
C17_Witness ==
  /\ pc = "pr_loop"
  /\ Len(ev) = 4
  /\ ev[2].op = "get_pr_comments"
  /\ Len(ev[2].delivered) > 0
  /\ decide(ev[2].delivered, HasPlanAnswers(TRUE)) = "Planner"
  /\ ev[2].issue \notin plan_exists
  /\ ev[3].op = "spawn_executor"
  /\ ev[3].ok

\* The part of the cycle main is in.
PhaseOf(at) ==
  CASE at \in {"poll_triggers", "trigger_loop", "handoff"} -> "trigger"
    [] at \in {"get_active", "conv_loop"} -> "conversation"
    [] at \in {"get_prs", "pr_loop"} -> "pr"
    [] at = "activity" -> "update"
    [] at = "loop_top" -> "head"
    [] OTHER -> at

\* The parts of one cycle in order; the activity update sits between the
\* conversation poll and the PR-feedback poll.
CycleOrder ==
  << "head", "trigger", "conversation", "update", "pr", "monitor", "cleanup", "sleep" >>

PlaceOf(at) == CHOOSE n \in 1..Len(CycleOrder) : CycleOrder[n] = PhaseOf(at)

\* A step of main, as opposed to a step of the tracker's users.
MainStep == <<pc, queue>>' # <<pc, queue>>

\* C18: every step of the loop stays in its phase or moves to the next one
\* in the order trigger scan, conversation poll, PR-feedback poll, session
\* monitoring, cleanup, sleep; only the sleep leads back to the head of the
\* loop; every call a step makes belongs to the phase main was in.  A cycle
\* cut short by main returning has run a prefix of that order.
C18_PhasesInOrder ==
  [][ (MainStep /\ pc \notin {"startup", "exited"})
      => /\ \/ pc' = "exited"
            \/ PlaceOf(pc') = PlaceOf(pc)
            \/ PlaceOf(pc') = PlaceOf(pc) + 1
            \/ pc = "sleep" /\ pc' = "loop_top"
         /\ \A k \in 1..Len(ev') : ev'[k].phase = PhaseOf(pc)
    ]_vars

\* A cycle in which a Planner was spawned and a comment was handled has run
\* through cleanup and is about to sleep.
C18_Witness ==
  /\ pc = "sleep"
  /\ Len(ev) = 1
  /\ ev[1].op = "cleanup_old_worktrees"
  /\ activity_detected
  /\ \E i \in records : last_comment_time[i] > 0

\* C19: every spawn_executor call, whether routed, the automatic handoff or
\* PR feedback, is made for an issue whose plan has been posted by the time
\* of the call.
C19_ExecutorOnlyWithPlan ==
  [][ MainStep =>
        \A k \in 1..Len(ev') :
           ev'[k].op = "spawn_executor" => ev'[k].issue \in plan_exists ]_vars

\* C20: a cycle in which activity was observed in any polling phase, the
\* PR-feedback poll included, has been treated as activity-detected by its
\* activity update: once the flag is up in the PR-feedback phase or later,
\* the state is Active or VeryActive and last_activity is this cycle's now.
C20_UpdateCountsPrActivity ==
  (pc \in {"pr_loop", "monitor", "cleanup", "sleep"} /\ activity_detected)
  => (activity_state # "Idle" /\ elapsed = 0)

\* C21: the end-of-cycle sleep lasts the poll interval of the activity state
\* the cycle's activity update has chosen: when main is about to sleep, the
\* interval it sleeps for is the table entry of the current activity state.
C21_SleepUsesUpdatedState ==
  pc = "sleep" => poll_interval = PollIntervalOf(activity_state)

\* The calls main makes on the issue tracker.
TrackerOps ==
  { "poll_triggers", "get_new_comments", "get_automation_prs", "get_pr_comments" }

\* C22: a failed tracker call is the last call of its step, so nothing is
\* spawned and nothing is written for it, and main goes on as after an empty
\* result: past the trigger loop, to the next issue, past the PR loop, or to
\* the next PR.
C22_TrackerFailureIsEmptyResult ==
  \A k \in 1..Len(ev) :
     (ev[k].op \in TrackerOps /\ ~ev[k].ok)
     => /\ k = Len(ev)
        /\ \A n \in 1..Len(ev) :
              ev[n].op \notin { "spawn_planner", "spawn_planner_with_context",
                                "spawn_executor", "add_comments" }
        /\ exit_cause = "none"
        /\ ev[k].op = "poll_triggers" => (pc = "get_active" /\ queue = << >>)
        /\ ev[k].op = "get_new_comments" => pc = "conv_loop"
        /\ ev[k].op = "get_automation_prs" => (pc = "monitor" /\ queue = << >>)
        /\ ev[k].op = "get_pr_comments" => pc = "pr_loop"

\* Fetching the comments of one PR has failed and another PR is still to be
\* polled in this cycle.
C22_Witness ==
  /\ pc = "pr_loop"
  /\ Len(ev) = 2
  /\ ev[2].op = "get_pr_comments"
  /\ ~ev[2].ok
  /\ Len(queue) > 0

\* C23: the trigger loop handles each listed issue once; an untracked issue
\* gets exactly one spawn_planner call; when that call fails the loop moves
\* on to the next issue without another attempt and without a handoff; the
\* grace wait and the Executor handoff follow exactly when it succeeded.
C23_OnePlannerAttemptHandoffIffSuccess ==
  [][ /\ pc \in {"trigger_loop", "handoff"}
         => \A a, b \in 1..Len(queue) : a # b => queue[a] # queue[b]
      /\ (pc = "trigger_loop" /\ queue # << >>)
         => /\ Cardinality(CallsOf(ev', "spawn_planner", "trigger")) <= 1
            /\ Head(queue) \notin records
               => Cardinality(CallsOf(ev', "spawn_planner", "trigger")) = 1
            /\ \A k \in CallsOf(ev', "spawn_planner", "trigger") :
                  /\ ev'[k].issue = Head(queue)
                  /\ IF ev'[k].ok
                     THEN pc' = "handoff" /\ cur' = Head(queue) /\ queue' = queue
                     ELSE pc' = "trigger_loop" /\ queue' = Tail(queue)
            /\ CallsOf(ev', "spawn_planner", "trigger") = {} => pc' = "trigger_loop"
      /\ pc = "handoff"
         => /\ Len(ev) = 2
            /\ ev[2].op = "spawn_planner"
            /\ ev[2].ok
            /\ ev[2].issue = cur
            /\ cur = Head(queue)
      /\ CallsOf(ev', "spawn_executor", "trigger") # {} => pc = "handoff"
    ]_vars

\* The Planner spawn of an untracked issue has failed without leaving a
\* record, no handoff follows, and the loop is at the next listed issue.
C23_Witness ==
  /\ pc = "trigger_loop"
  /\ Len(ev) = 2
  /\ ev[2].op = "spawn_planner"
  /\ ~ev[2].ok
  /\ ~ev[2].tracked
  /\ ev[2].issue \notin records
  /\ Len(queue) > 0

\* C24: monitor_sessions is always followed by cleanup_old_worktrees, whether
\* or not it returned an error; cleanup is called once, from nowhere else;
\* after it, whether or not it returned an error, main sleeps and the next
\* cycle begins.
C24_CleanupOnceAfterMonitor ==
  [][ /\ pc = "monitor"
         => /\ pc' = "cleanup"
            /\ Len(ev') = 1
            /\ ev'[1].op = "monitor_sessions"
      /\ pc = "cleanup"
         => /\ pc' = "sleep"
            /\ Len(ev') = 1
            /\ ev'[1].op = "cleanup_old_worktrees"
      /\ (pc' = "cleanup" /\ pc # "cleanup") => pc = "monitor"
      /\ (pc # "cleanup" /\ ev' # ev)
         => \A k \in 1..Len(ev') : ev'[k].op # "cleanup_old_worktrees"
      /\ pc = "sleep" => (pc' = "loop_top" /\ exit_cause' = "none")
    ]_vars

\* Cleanup has returned an error and main is about to sleep.
C24_Witness ==
  /\ pc = "sleep"
  /\ exit_cause = "none"
  /\ Len(ev) = 1
  /\ ev[1].op = "cleanup_old_worktrees"
  /\ ~ev[1].ok

\* The kind of comment a fetch asks for.
KindOf(op) == IF op = "get_pr_comments" THEN "pr" ELSE "issue"

\* The tracker's comments of one kind on an issue that lie after a time.
After(i, kind, since) ==
  { c \in tracker : c.issue_number = i /\ c.kind = kind /\ c.created_at > since }

\* C25: issue comments and PR comments of an issue are fetched since the
\* same stored last_comment_time and recorded under it: every fetch of either
\* kind delivers exactly the comments of its kind created after it, handled
\* comments of either kind move it to the newest of them, so a comment of
\* either kind at or before it is delivered by no poll, and nothing is
\* spawned without a delivered comment.
C25_SharedWatermark ==
  [][ (pc = "conv_loop" \/ pc = "pr_loop") =>
        /\ \A k \in Fetches(ev') :
              /\ { ev'[k].delivered[n] : n \in 1..Len(ev'[k].delivered) }
                 = After(ev'[k].issue, KindOf(ev'[k].op), last_comment_time[ev'[k].issue])
              /\ \A c \in tracker :
                    c.created_at <= last_comment_time[c.issue_number]
                    => \A n \in 1..Len(ev'[k].delivered) : ev'[k].delivered[n] # c
              /\ (Len(ev'[k].delivered) > 0 /\ pc' # "exited")
                 => last_comment_time'[ev'[k].issue]
                    = MaxOf({ ev'[k].delivered[n].created_at : n \in 1..Len(ev'[k].delivered) })
        /\ (\E k \in 1..Len(ev') :
               ev'[k].op \in {"spawn_executor", "spawn_planner_with_context"})
           => \E k \in Fetches(ev') : Len(ev'[k].delivered) > 0
        /\ \A i \in Issues : last_comment_time'[i] >= last_comment_time[i]
    ]_vars

\* An issue comment created at T has just been handled and has moved
\* last_comment_time to T, while a PR comment of the same issue, also created
\* at T, had not been delivered: it is now out of reach of every later poll.
C25_Witness ==
  /\ pc = "conv_loop"
  /\ Len(ev) = 5
  /\ ev[2].op = "get_new_comments"
  /\ Len(ev[2].delivered) = 1
  /\ last_comment_time[ev[2].issue] = ev[2].delivered[1].created_at
  /\ \E c \in tracker :
        /\ c.issue_number = ev[2].issue
        /\ c.kind = "pr"
        /\ c.created_at = last_comment_time[ev[2].issue]

SpawnOps == { "spawn_planner", "spawn_planner_with_context", "spawn_executor" }

\* C26: add_comments is called right after the spawn attempt for the same
\* issue; in the conversation poll only after a spawn that succeeded, and a
\* failed routed spawn is followed by no add_comments; in the PR-feedback
\* poll after every spawn attempt, so that PR comments whose Executor spawn
\* failed lie at or before the stored last_comment_time afterwards.
C26_CommentsRecordedAfterSpawn ==
  /\ \A k \in 1..Len(ev) :
        ev[k].op = "add_comments"
        => /\ k > 1
           /\ ev[k - 1].op \in SpawnOps
           /\ ev[k - 1].issue = ev[k].issue
           /\ ev[k].phase = "conversation" => ev[k - 1].ok
  /\ \A k \in 1..Len(ev) :
        (ev[k].op \in SpawnOps /\ ev[k].phase = "conversation" /\ ~ev[k].ok)
        => (k = Len(ev) /\ pc = "exited")
  /\ \A k \in CallsOf(ev, "spawn_executor", "pr") :
        /\ k < Len(ev)
        /\ ev[k + 1].op = "add_comments"
        /\ ev[k + 1].ok
           => \A f \in Fetches(ev) : \A n \in 1..Len(ev[f].delivered) :
                 ev[f].delivered[n].created_at <= last_comment_time[ev[k].issue]

\* The Executor spawn for new PR comments has failed and the comments have
\* been recorded all the same.
C26_Witness ==
  /\ pc = "pr_loop"
  /\ Len(ev) = 4
  /\ Len(ev[2].delivered) > 0
  /\ ev[3].op = "spawn_executor"
  /\ ~ev[3].ok
  /\ ev[4].op = "add_comments"
  /\ ev[4].ok
  /\ last_comment_time[ev[3].issue] = ev[2].delivered[1].created_at

\* C27: the issues polled in the conversation phase are listed after the
\* trigger phase, so every issue whose Planner this cycle's scan spawned is
\* in the list; every listed issue is polled, in order; and a poll that
\* delivers new comments is followed by the routing decision and, unless
\* that fails, by a spawn for the same issue.
C27_TriggeredIssuePolledSameCycle ==
  [][ /\ (pc = "get_active" /\ pc' = "conv_loop")
         => \A i \in Issues :
               planned[i] = 1 => \E n \in 1..Len(queue') : queue'[n] = i
      /\ (pc = "conv_loop" /\ queue # << >>)
         => /\ ev'[1].op = "last_comment_time"
            /\ ev'[1].issue = Head(queue)
            /\ (pc' = "exited" \/ (pc' = "conv_loop" /\ queue' = Tail(queue)))
            /\ \A k \in Fetches(ev') :
                  Len(ev'[k].delivered) > 0
                  => /\ Len(ev') > k
                     /\ ev'[k + 1].op = "decide"
                     /\ ev'[k + 1].ok
                        => /\ Len(ev') > k + 1
                           /\ ev'[k + 2].op \in {"spawn_executor", "spawn_planner_with_context"}
                           /\ ev'[k + 2].issue = Head(queue)
    ]_vars

\* An issue whose Planner was spawned by this cycle's scan has been polled
\* in the same cycle, had a new comment, and got a further session.
C27_Witness ==
  /\ pc = "conv_loop"
  /\ Len(ev) = 5
  /\ Len(ev[2].delivered) > 0
  /\ ev[4].op \in {"spawn_executor", "spawn_planner_with_context"}
  /\ ev[4].ok
  /\ planned[ev[4].issue] = 1

\* C28: when cycles keep completing and from some cycle on no activity
\* update sees activity, the activity state eventually is Idle and stays
\* Idle, and every head of the loop from then on picks the Idle interval.
C28_EventuallyIdle ==
  ( /\ []<>(pc = "sleep")
    /\ <>[](pc = "activity" => ~activity_detected) )
  => <>[]( /\ activity_state = "Idle"
           /\ pc = "poll_triggers" => poll_interval = PollIntervalIdleSecs )

\* A cycle that began Active has fallen to Idle after the timeout without
\* activity.
C28_Witness ==
  /\ pc = "get_prs"
  /\ poll_interval = PollIntervalActiveSecs
  /\ activity_state = "Idle"
  /\ ~activity_detected
  /\ elapsed > ActivityTimeoutSecs

\* C29: main enters the loop in Idle with last_activity at the startup time;
\* the first cycle's update finds the state still Idle, and when it has
\* detected activity and reads less than 120 s since startup it assigns
\* VeryActive in that one step, Active never having been the state.
C29_IdleDirectlyToVeryActive ==
  [][ /\ (pc = "startup" /\ pc' = "loop_top")
         => (activity_state' = "Idle" /\ elapsed' = 0)
      /\ pc = "activity"
         => /\ activity_state = "Idle"
            /\ Len(ev') = 1
            /\ ev'[1].op = "elapsed"
            /\ (activity_detected /\ ev'[1].delivered[1] < 120)
               => activity_state' = "VeryActive"
    ]_vars

\* The first cycle has detected activity 119 s after startup and is now
\* VeryActive.
C29_Witness ==
  /\ pc = "get_prs"
  /\ Len(ev) = 1
  /\ ev[1].op = "elapsed"
  /\ ev[1].delivered[1] < 120
  /\ activity_detected
  /\ activity_state = "VeryActive"

\* C30: the activity flag is lowered at the head of every cycle; up to the
\* activity update it is raised by a step of the trigger loop exactly when
\* that step's Planner spawn succeeded, and by a step of the conversation
\* loop exactly when its fetch delivered comments, whatever routing and
\* spawning do afterwards; no other step before the update changes it, and
\* the update leaves it as it read it.
C30_ActivityFlagSources ==
  [][ /\ pc = "loop_top" => activity_detected' = FALSE
      /\ pc = "trigger_loop"
         => activity_detected'
            = (activity_detected
               \/ \E k \in CallsOf(ev', "spawn_planner", "trigger") : ev'[k].ok)
      /\ pc = "conv_loop"
         => activity_detected'
            = (activity_detected
               \/ \E k \in CallsOf(ev', "get_new_comments", "conversation") :
                     Len(ev'[k].delivered) > 0)
      /\ pc \in {"poll_triggers", "handoff", "get_active", "activity"}
         => activity_detected' = activity_detected
    ]_vars

\* A Planner spawn has failed in a cycle without any other activity: the
\* flag is still down.
C30_Witness ==
  /\ pc = "trigger_loop"
  /\ Len(ev) = 2
  /\ ev[2].op = "spawn_planner"
  /\ ~ev[2].ok
  /\ ~activity_detected

\* New comments were delivered and the routing decision failed: the flag is
\* up all the same.
C30_WitnessRouting ==
  /\ pc = "exited"
  /\ exit_cause = "router"
  /\ activity_detected

=============================================================================
